---- MODULE Spec2Model ----
(***************************************************************************)
(* The tcpchat server (server/server.go with the common package it         *)
(* compiles against): one handleConnection goroutine per accepted          *)
(* connection, its companion subscribeToMessages goroutine, the three      *)
(* unsynchronised registry globals and the single unbuffered               *)
(* messagesChannel.                                                        *)
(*                                                                         *)
(* A pc value names the statement a goroutine is executing.  The code      *)
(* takes no lock anywhere, so every statement that touches a shared        *)
(* structure is a step of its own and steps of different goroutines        *)
(* interleave freely.                                                      *)
(***************************************************************************)
EXTENDS Integers, Sequences, FiniteSets, TLC

\* ------------------------------------------------------------- bounds
NumSessions == 2     \* connections the listener accepts
MaxCreates == 2      \* create operations the clients send, all connections together
MaxSubscribes == 2   \* subscribe operations
MaxMessages == 2     \* message operations
MaxOthers == 1       \* list operations and operations of a type the switch ignores
MaxOps == 3          \* well-formed operations of all types together
MaxFrames == 2       \* frames written to the byte stream ReadUntil is tried on
MaxLen == 2          \* bytes in the payload of one frame
MaxReads == 3        \* ReadUntil calls on that stream
MaxRetried == 2      \* timed-out reads of the client that are counted
MaxCached == 2       \* conversations in one list response the client receives
MaxSent == 2         \* message operations the client's sendMessage writes

Sessions == 1..NumSessions

\* ------------------------------------------------------- wire values
unmarshalingError == <<"Error while unmarshaling data. Please check again">>

EOFBytes == <<"\r", "\n">>

AboutMeOperationType == "aboutme"
CreateOperationType == "create"
SubscribeOperationType == "subscribe"
MessageOperationType == "message"
ListOperationType == "list"

\* json.RawMessage("{}")
emptyJSON == [kind |-> "empty"]

\* *Conversation: a nil pointer, or a conversation {id, nickname}
NilConversation == [isnil |-> TRUE, id |-> 0, nickname |-> ""]
Conversation(id, nickname) == [isnil |-> FALSE, id |-> id, nickname |-> nickname]

\* Operation.Message, a *json.RawMessage: "nil" is an absent or null field,
\* "bad" a JSON value that no record type accepts (a bare string), "obj" a JSON
\* object.  A field the object leaves out decodes to the zero value.
NilPayload == [kind |-> "nil", id |-> 0, name |-> "", nickname |-> "", conversation |-> NilConversation, text |-> ""]
BadPayload == [kind |-> "bad", id |-> 0, name |-> "", nickname |-> "", conversation |-> NilConversation, text |-> ""]
ObjPayload(name, nickname, conv, text) ==
    [kind |-> "obj", id |-> 0, name |-> name, nickname |-> nickname, conversation |-> conv, text |-> text]

\* the object a client introduces itself with: its name and, when id is not 0,
\* the id it chose for itself
AboutMePayload(id, name) == [ObjPayload(name, "", NilConversation, "") EXCEPT !.id = id]

\* A frame as the bytes decode: valid = FALSE when json.Unmarshal rejects it as an
\* Operation (no bytes at all included).
Frame(type, payload) == [valid |-> TRUE, type |-> type, payload |-> payload]
GarbageFrame == [valid |-> FALSE, type |-> "", payload |-> NilPayload]

\* type Operation struct
ZeroOperation == [Type |-> "", Message |-> NilPayload]

\* type Response struct, common.NewResponse()
NewResponse == [Status |-> "", OperationType |-> "", Error |-> <<>>, Message |-> emptyJSON]

\* ------------------------------------------------------------- state
VARIABLES
    conversations,            \* var conversations []*common.Conversation
    conversationIDs,          \* var conversationIDs map[uuid.UUID]bool
    conversationsByNickname,  \* var conversationsByNickname map[string]*common.Conversation
    uuidCount,                \* uuid.New() calls made by handleCreateConversation
    pc,                       \* handleConnection goroutine of each connection
    operation,                \* its local operation
    conversation,             \* the local conversation of the handler it is in
    sliceHeader,              \* the conversations slice as append loaded it
    response,                 \* its local response
    errmsg,                   \* the string handed to writeErrorResponse
    aboutClient,              \* its local aboutClient
    conversationsToListenOn,  \* its subscription map, shared with the companion
    dpc,                      \* subscribeToMessages goroutine of each connection
    message,                  \* the message the companion took off messagesChannel
    connClosed,               \* conn.Close() was called on the server side
    clientClosed,             \* the client closed its end
    wire,                     \* what conn.Write put on each connection, in order
    nread,                    \* well-formed operations read so far, per type
    crashed,                  \* the process died (panic or runtime fatal error)
    owed,                     \* history: messages handed to messagesChannel while the
                              \* session was subscribed to their conversation
    handshakes,               \* history: handshakes completed per connection
    created,                  \* history: creates that succeeded, per nickname
    rejected,                 \* history: creates rejected as duplicates, per nickname
    overlapped,               \* history: two creates were in progress at once
    writer,                   \* who writes the byte stream ReadUntil is tried on
    written,                  \* the bytes written to that stream, in order
    payloads,                 \* history: the payload of each frame written to it
    delivered,                \* how many of the bytes have arrived at the reader
    consumed,                 \* how many of them ReadBytes has handed out
    closed,                   \* whether and how the stream has ended
    returnBytes,              \* ReadUntil's accumulator, of the call in progress
    results,                  \* history: what the ReadUntil calls returned
    incoming,                 \* the client's handleIncoming goroutine
    quit,                     \* the client's quit channel: the deferred send on it
    deadline,                 \* seconds left until the read deadline of the client's conn
    waited,                   \* history: seconds since the send on quit began
    retried,                  \* history: reads that timed out and were tried again
    dispatched,               \* history: the responses handleIncoming handled, in order
    globalConversations,      \* var globalConversations []*common.Conversation of the client
    decoding,                 \* the list response json.Unmarshal is storing into it
    sent                      \* what the client's sendMessage wrote to its conn, in order

vars == <<conversations, conversationIDs, conversationsByNickname, uuidCount, pc,
          operation, conversation, sliceHeader, response, errmsg, aboutClient,
          conversationsToListenOn, dpc, message, connClosed, clientClosed, wire,
          nread, crashed, owed, handshakes, created, rejected, overlapped,
          writer, written, payloads, delivered, consumed, closed, returnBytes, results,
          incoming, quit, deadline, waited, retried, dispatched,
          globalConversations, decoding, sent>>

registry == <<conversations, conversationIDs, conversationsByNickname, uuidCount>>
locals == <<operation, conversation, sliceHeader, response, errmsg>>
history == <<owed, handshakes, created, rejected, overlapped>>
codec == <<writer, written, payloads, delivered, consumed, closed, returnBytes, results>>
sender == <<globalConversations, decoding, sent>>
client == <<incoming, quit, deadline, waited, retried, dispatched, sender>>

OperationKinds == {"create", "subscribe", "message", "other"}
Budget == [create |-> MaxCreates, subscribe |-> MaxSubscribes, message |-> MaxMessages,
           other |-> MaxOthers]

NoIdentity == [set |-> FALSE, id |-> 0, name |-> ""]

\* no byte stream is being tried
CodecIdle ==
    /\ writer = "none"
    /\ written = <<>>
    /\ payloads = <<>>
    /\ delivered = 0
    /\ consumed = 0
    /\ closed = "open"
    /\ returnBytes = <<>>
    /\ results = <<>>

\* no list response is being unmarshalled
NoDecoding == [active |-> FALSE, list |-> <<>>, i |-> 0]

\* the client has cached no conversation and sent no message
SenderIdle ==
    /\ globalConversations = <<>>
    /\ decoding = NoDecoding
    /\ sent = <<>>

\* no client is being looked at
ClientIdle ==
    /\ SenderIdle
    /\ incoming = "none"
    /\ quit = "none"
    /\ deadline = 0
    /\ waited = 0
    /\ retried = 0
    /\ dispatched = <<>>

\* the server as main starts it: nothing registered, no connection accepted
ServerInit ==
    /\ conversations = <<>>
    /\ conversationIDs = {}
    /\ conversationsByNickname = [n \in {} |-> NilConversation]
    /\ uuidCount = 0
    /\ pc = [s \in Sessions |-> "idle"]
    /\ operation = [s \in Sessions |-> ZeroOperation]
    /\ conversation = [s \in Sessions |-> NilConversation]
    /\ sliceHeader = [s \in Sessions |-> <<>>]
    /\ response = [s \in Sessions |-> emptyJSON]
    /\ errmsg = [s \in Sessions |-> <<>>]
    /\ aboutClient = [s \in Sessions |-> NoIdentity]
    /\ conversationsToListenOn = [s \in Sessions |-> {}]
    /\ dpc = [s \in Sessions |-> "none"]
    /\ message = [s \in Sessions |-> NilPayload]
    /\ connClosed = [s \in Sessions |-> FALSE]
    /\ clientClosed = [s \in Sessions |-> FALSE]
    /\ wire = [s \in Sessions |-> <<>>]
    /\ nread = [k \in OperationKinds |-> 0]
    /\ crashed = FALSE
    /\ owed = [s \in Sessions |-> <<>>]
    /\ handshakes = [s \in Sessions |-> 0]
    /\ created = [n \in {} |-> 0]
    /\ rejected = [n \in {} |-> 0]
    /\ overlapped = FALSE

Init == ServerInit /\ CodecIdle /\ ClientIdle

\* The process is gone: a panic in any goroutine, or a runtime fatal error, ends
\* every goroutine, frees the registry and resets every connection.
Panic ==
    /\ crashed' = TRUE
    /\ conversations' = <<>>
    /\ conversationIDs' = {}
    /\ conversationsByNickname' = [n \in {} |-> NilConversation]
    /\ uuidCount' = 0
    /\ pc' = [s \in Sessions |-> "dead"]
    /\ operation' = [s \in Sessions |-> ZeroOperation]
    /\ conversation' = [s \in Sessions |-> NilConversation]
    /\ sliceHeader' = [s \in Sessions |-> <<>>]
    /\ response' = [s \in Sessions |-> emptyJSON]
    /\ errmsg' = [s \in Sessions |-> <<>>]
    /\ aboutClient' = [s \in Sessions |-> NoIdentity]
    /\ conversationsToListenOn' = [s \in Sessions |-> {}]
    /\ dpc' = [s \in Sessions |-> "dead"]
    /\ message' = [s \in Sessions |-> NilPayload]
    /\ connClosed' = [s \in Sessions |-> TRUE]
    /\ clientClosed' = [s \in Sessions |-> FALSE]
    /\ wire' = [s \in Sessions |-> <<>>]
    /\ nread' = [k \in OperationKinds |-> 0]
    /\ owed' = [s \in Sessions |-> <<>>]
    /\ handshakes' = [s \in Sessions |-> 0]
    /\ created' = [n \in {} |-> 0]
    /\ rejected' = [n \in {} |-> 0]
    /\ overlapped' = FALSE
    /\ UNCHANGED <<codec, client>>

\* ------------------------------------------------------------ inputs
CreateNicknames == {"", "1"}
SubscribeNicknames == {"1", "ghost"}

Range(f) == {f[x] : x \in DOMAIN f}

\* The budget a frame is counted against: none for the handshake and for a
\* frame that ends the connection or the process.
KindOf(f) ==
    IF ~f.valid THEN "none"
    ELSE IF f.type \in {CreateOperationType, SubscribeOperationType, MessageOperationType}
    THEN IF f.payload.kind # "obj" THEN "none" ELSE f.type
    ELSE "other"

\* the ok response handleConnection writes for a message operation
IsMessageAck(c) ==
    c.hasBody /\ c.body.Status = "ok" /\ c.body.OperationType = MessageOperationType
        /\ c.body.Message.kind = "empty"

\* the text of the n-th message a client publishes
Text(n) == "m" \o ToString(n)

\* The message operations the client of connection s may send next: it names
\* itself as the sender, numbers its messages in the text, and addresses no
\* conversation or one the registry lists.
MessageFrames(s) ==
    {Frame(MessageOperationType,
           ObjPayload(ToString(s), "", c, Text(Len(SelectSeq(wire[s], IsMessageAck)) + 1))) :
        c \in {NilConversation} \cup Range(conversations)}

\* What else a client may put on its connection once the handshake is done:
\* malformed bytes and every operation, with a present, null or ill-typed
\* payload, an operation of a type the server does not know, without payload,
\* among them.
ClientFrames ==
    {GarbageFrame}
    \cup {Frame(AboutMeOperationType, ObjPayload("bob", "", NilConversation, ""))}
    \cup {Frame(CreateOperationType, ObjPayload("", n, NilConversation, "")) : n \in CreateNicknames}
    \cup {Frame(SubscribeOperationType, ObjPayload("", n, NilConversation, "")) : n \in SubscribeNicknames}
    \cup {Frame(ListOperationType, ObjPayload("", "", NilConversation, ""))}
    \cup {Frame("ping", NilPayload)}
    \cup {Frame(CreateOperationType, NilPayload)}
    \cup {Frame(t, BadPayload) : t \in {CreateOperationType, SubscribeOperationType, MessageOperationType}}

\* the id the client on connection s made for itself: initialiseSender's uuid.New()
ClientID(s) == 200 + s

\* What a client may send first.  handleConnection never looks at the type of
\* the first frame, so the aboutme type stands for all of them.  The client on
\* connection 1 introduces itself as the repository's client does, with name
\* and id; the client on connection 2 gives its name and leaves the id out.
FirstFrames(s) ==
    {GarbageFrame}
    \cup {Frame(AboutMeOperationType, p) :
            p \in {AboutMePayload(IF s = 1 THEN ClientID(s) ELSE 0, "alice"),
                   NilPayload, BadPayload}}

\* What the next read on connection s meets: a frame the client sent, or the end
\* of the stream when the client has closed its end.
StreamEvents(s) ==
    {[eof |-> FALSE, frame |-> f] :
        f \in IF pc[s] = "handshake" THEN FirstFrames(s)
              ELSE {g \in ClientFrames \cup MessageFrames(s) :
                        \/ KindOf(g) = "none"
                        \/ /\ nread[KindOf(g)] < Budget[KindOf(g)]
                           /\ nread.create + nread.subscribe + nread.message + nread.other < MaxOps}}
    \cup {[eof |-> TRUE, frame |-> GarbageFrame]}

Counted(ev) ==
    IF ev.eof \/ KindOf(ev.frame) = "none" THEN nread
    ELSE [nread EXCEPT ![KindOf(ev.frame)] = @ + 1]

\* ----------------------------------------------------- pure functions
\* `request, err := common.ReadUntil(connReader, common.EOFBytes)`, the frame
\* already decoded: in ReadUntil the err of the loop body shadows the named result, so the
\* error returned is nil whatever ReadBytes reported; at end of stream the bytes
\* returned are the ones accumulated so far (none).
ReadRequest(ev) == [bytes |-> ev.frame, err |-> "nil"]

\* mutant: whatever was read passes for an Operation
getOperationLenient(b) ==
    [operation |-> [Type |-> b.type, Message |-> b.payload], err |-> <<>>]

getOperation(b) ==
    IF b.valid
    THEN [operation |-> [Type |-> b.type, Message |-> b.payload], err |-> <<>>]
    ELSE [operation |-> ZeroOperation, err |-> unmarshalingError]

\* json.Unmarshal of a payload into a record type
Unmarshals(p) == p.kind = "obj"

\* ParseClientAboutMe: ID starts as uuid.New(), one call per connection;
\* json.Unmarshal then stores the fields the payload has, its id over the
\* generated one and its name over the zero name.
ClientUUID(s) == 100 + s

\* mutant: the generated id stays whatever the payload says
ParseClientAboutMeOwnID(b, s) ==
    IF Unmarshals(b)
    THEN [aboutClient |-> [set |-> TRUE, id |-> ClientUUID(s), name |-> b.name], err |-> <<>>]
    ELSE [aboutClient |-> [set |-> TRUE, id |-> ClientUUID(s), name |-> ""], err |-> unmarshalingError]

ParseClientAboutMe(b, s) ==
    IF Unmarshals(b)
    THEN [aboutClient |-> [set |-> TRUE, id |-> IF b.id # 0 THEN b.id ELSE ClientUUID(s),
                           name |-> b.name],
          err |-> <<>>]
    ELSE [aboutClient |-> [set |-> TRUE, id |-> ClientUUID(s), name |-> ""], err |-> unmarshalingError]

\* mutant: the fallback nickname counts from one
ItoaOneBased(n) == ToString(n + 1)

\* strconv.Itoa
Itoa(n) == ToString(n)

AlreadyExistsError(nickname) == <<"conversation with nickname '", nickname, "' already exists">>
\* mutant: the message leaves the nickname out
DoesNotExistErrorAnonymous(nickname) == <<"conversation does not exist">>

DoesNotExistError(nickname) == <<"conversation '", nickname, "' does not exist">>

\* the Response writeOKResponse marshals
OKResponse(msg, operationType) ==
    [NewResponse EXCEPT !.Status = "ok", !.OperationType = operationType, !.Message = msg]

\* mutant: the status is left unset
ErrorResponseNoStatus(s) == [NewResponse EXCEPT !.Error = s]

\* the Response writeErrorResponse marshals
ErrorResponse(s) == [NewResponse EXCEPT !.Status = "error", !.Error = s]

\* One conn.Write: body is the marshalled Response ("none" for a write of the
\* terminator alone), term tells whether EOFBytes ends the same write.
Chunk(body, term) == [hasBody |-> TRUE, body |-> body, term |-> term]
TerminatorChunk == [hasBody |-> FALSE, body |-> NewResponse, term |-> TRUE]

\* conn.Write fails on a connection the server closed; while it is open the
\* kernel takes the bytes, also after the client has closed its end.
\* mutant: a write succeeds on a connection the server has closed as well
WriteOutcomesAlways(s) == {TRUE}

WriteOutcomes(s) == IF connClosed[s] THEN {FALSE} ELSE {TRUE}

\* mutant: a write overtakes what was written before
WrittenFirst(s, chunk, ok) == IF ok THEN [wire EXCEPT ![s] = <<chunk>> \o @] ELSE wire

Written(s, chunk, ok) == IF ok THEN [wire EXCEPT ![s] = Append(@, chunk)] ELSE wire

Count(f, k) == IF k \in DOMAIN f THEN f[k] ELSE 0
Inc(f, k) == [x \in DOMAIN f \cup {k} |-> IF x = k THEN Count(f, k) + 1 ELSE f[x]]

CreatePCs == {"create_nickname", "create_lookup", "create_load", "create_append",
              "create_index"}
\* ------------------------------------------------- handleConnection
\* Listen: Accept returns a connection and `go handleConnection(conn)` starts.
\* Connections are numbered in the order the one listener accepts them.
Accept(s) ==
    /\ ~crashed
    /\ UNCHANGED <<codec, client>>
    /\ pc[s] = "idle"
    /\ \A t \in Sessions : t < s => pc[t] # "idle"
    /\ pc' = [pc EXCEPT ![s] = "handshake"]
    /\ UNCHANGED <<registry, locals, aboutClient, conversationsToListenOn, dpc, message,
                   connClosed, clientClosed, wire, nread, crashed, history>>

\* handleConnection up to the loop: the first frame is taken as the identity
\* whatever its type, the aboutme response is written (its write error ignored),
\* the subscription map is made and the companion goroutine started.
Handshake(s) ==
    /\ ~crashed
    /\ UNCHANGED <<codec, client>>
    /\ pc[s] = "handshake"
    /\ \E ev \in StreamEvents(s), ok \in WriteOutcomes(s) :
        LET r == ReadRequest(ev)
            g == getOperation(r.bytes)
            a == ParseClientAboutMe(g.operation.Message, s)
            failure == IF r.err # "nil" THEN <<"Some error occurred">>
                       ELSE IF g.err # <<>> THEN g.err
                       ELSE IF g.operation.Message.kind # "nil" THEN a.err
                       ELSE <<>>
        IN  IF r.err = "nil" /\ g.err = <<>> /\ g.operation.Message.kind = "nil"
            THEN Panic    \* *operation.Message with Message nil
            ELSE /\ clientClosed' = [clientClosed EXCEPT ![s] = ev.eof]
                 /\ IF failure # <<>>
                    THEN /\ errmsg' = [errmsg EXCEPT ![s] = failure]
                         /\ pc' = [pc EXCEPT ![s] = "error_body"]
                         /\ UNCHANGED <<aboutClient, dpc, wire, handshakes>>
                    ELSE /\ aboutClient' = [aboutClient EXCEPT ![s] = a.aboutClient]
                         /\ wire' = Written(s, Chunk(OKResponse(a.aboutClient, AboutMeOperationType), TRUE), ok)
                         /\ dpc' = [dpc EXCEPT ![s] = "select"]
                         /\ pc' = [pc EXCEPT ![s] = "read"]
                         /\ handshakes' = [handshakes EXCEPT ![s] = @ + 1]
                         /\ UNCHANGED errmsg
                 /\ UNCHANGED <<registry, operation, conversation, sliceHeader, response,
                                conversationsToListenOn, message, connClosed, nread,
                                crashed, owed, created, rejected, overlapped>>

\* mutant: an aboutme operation inside the loop runs the handshake again
HandlerEntryRehandshake(op) ==
    CASE op.Type = AboutMeOperationType -> "handshake"
      [] op.Type = CreateOperationType ->
            IF op.Message.nickname = "" THEN "create_nickname" ELSE "create_lookup"
      [] op.Type = SubscribeOperationType -> "subscribe_lookup"
      [] op.Type = MessageOperationType -> "publish"
      [] op.Type = ListOperationType -> "list"
      [] OTHER -> "respond"

\* mutant: the switch rejects a type it has no case for
HandlerEntryStrict(op) ==
    CASE op.Type = CreateOperationType ->
            IF op.Message.nickname = "" THEN "create_nickname" ELSE "create_lookup"
      [] op.Type = SubscribeOperationType -> "subscribe_lookup"
      [] op.Type = MessageOperationType -> "publish"
      [] op.Type = ListOperationType -> "list"
      [] OTHER -> "error_body"

\* Where the switch on operation.Type sends the loop, the payload being decoded
\* by the handler it calls.
HandlerEntry(op) ==
    CASE op.Type = CreateOperationType ->
            IF op.Message.nickname = "" THEN "create_nickname" ELSE "create_lookup"
      [] op.Type = SubscribeOperationType -> "subscribe_lookup"
      [] op.Type = MessageOperationType -> "publish"
      [] op.Type = ListOperationType -> "list"
      [] OTHER -> "respond"

\* the handlers that dereference op.Message
DereferencesPayload(type) ==
    type \in {CreateOperationType, SubscribeOperationType, MessageOperationType}

\* The top of the loop: read a frame, decode the Operation, enter the handler and
\* decode its payload.  An error ends the loop by way of writeErrorResponse.
Read(s) ==
    /\ ~crashed
    /\ UNCHANGED <<codec, client>>
    /\ pc[s] = "read"
    /\ \E ev \in StreamEvents(s) :
        LET r == ReadRequest(ev)
            g == getOperation(r.bytes)
            op == g.operation
        IN  IF r.err # "EOF" /\ g.err = <<>> /\ DereferencesPayload(op.Type) /\ op.Message.kind = "nil"
            THEN Panic    \* *op.Message with Message nil
            ELSE /\ nread' = Counted(ev)
                 /\ clientClosed' = [clientClosed EXCEPT ![s] = ev.eof]
                 /\ IF r.err = "EOF"
                    THEN /\ pc' = [pc EXCEPT ![s] = "quit"]
                         /\ UNCHANGED <<operation, conversation, response, errmsg, overlapped, uuidCount>>
                    ELSE IF g.err # <<>>
                    THEN /\ errmsg' = [errmsg EXCEPT ![s] = g.err]
                         /\ pc' = [pc EXCEPT ![s] = "error_body"]
                         /\ UNCHANGED <<operation, conversation, response, overlapped, uuidCount>>
                    ELSE IF DereferencesPayload(op.Type) /\ ~Unmarshals(op.Message)
                    THEN /\ errmsg' = [errmsg EXCEPT ![s] = unmarshalingError]
                         /\ pc' = [pc EXCEPT ![s] = "error_body"]
                         /\ UNCHANGED <<operation, conversation, response, overlapped, uuidCount>>
                    ELSE /\ operation' = [operation EXCEPT ![s] = op]
                         /\ response' = [response EXCEPT ![s] = emptyJSON]
                         /\ conversation' = [conversation EXCEPT ![s] =
                                IF op.Type = CreateOperationType
                                THEN Conversation(uuidCount + 1, op.Message.nickname)
                                ELSE IF op.Type = SubscribeOperationType
                                THEN Conversation(0, op.Message.nickname)
                                ELSE NilConversation]
                         /\ uuidCount' = uuidCount + (IF op.Type = CreateOperationType THEN 1 ELSE 0)
                         /\ pc' = [pc EXCEPT ![s] = HandlerEntry(op)]
                         /\ overlapped' = (overlapped \/ (op.Type = CreateOperationType
                                             /\ \E t \in Sessions \ {s} : pc[t] \in CreatePCs))
                         /\ UNCHANGED errmsg
                 /\ UNCHANGED <<conversations, conversationIDs, conversationsByNickname,
                                sliceHeader, aboutClient, conversationsToListenOn, dpc,
                                message, connClosed, wire, crashed, owed,
                                handshakes, created, rejected>>

\* handleCreateConversation, the fallback nickname of a create that names none:
\* `conversation.Nickname = strconv.Itoa(len(conversations))`
CreateNickname(s) ==
    /\ ~crashed
    /\ UNCHANGED <<codec, client>>
    /\ pc[s] = "create_nickname"
    /\ conversation' = [conversation EXCEPT ![s].nickname = Itoa(Len(conversations))]
    /\ pc' = [pc EXCEPT ![s] = "create_lookup"]
    /\ UNCHANGED <<registry, operation,
                   sliceHeader, response, errmsg, aboutClient, conversationsToListenOn, dpc,
                   message, connClosed, clientClosed, wire, nread, crashed, history>>

\* mutant: the duplicate test never finds the nickname
NicknameNeverTaken(nickname) == FALSE

\* the test `_, ok := conversationsByNickname[conversation.Nickname]`
NicknameTaken(nickname) == nickname \in DOMAIN conversationsByNickname

\* handleCreateConversation, the duplicate test on the nickname index
CreateLookup(s) ==
    /\ ~crashed
    /\ UNCHANGED <<codec, client>>
    /\ pc[s] = "create_lookup"
    /\ IF NicknameTaken(conversation[s].nickname)
       THEN /\ errmsg' = [errmsg EXCEPT ![s] = AlreadyExistsError(conversation[s].nickname)]
            /\ pc' = [pc EXCEPT ![s] = "error_body"]
            /\ rejected' = Inc(rejected, conversation[s].nickname)
       ELSE /\ pc' = [pc EXCEPT ![s] = "create_load"]
            /\ UNCHANGED <<errmsg, rejected>>
    /\ UNCHANGED <<registry, operation, conversation, sliceHeader, response, aboutClient,
                   conversationsToListenOn, dpc, message, connClosed, clientClosed, wire,
                   nread, crashed, owed, handshakes, created, overlapped>>

\* `conversations = append(conversations, conversation)`, first half: append
\* reads the slice header.
CreateLoad(s) ==
    /\ ~crashed
    /\ UNCHANGED <<codec, client>>
    /\ pc[s] = "create_load"
    /\ sliceHeader' = [sliceHeader EXCEPT ![s] = conversations]
    /\ pc' = [pc EXCEPT ![s] = "create_append"]
    /\ UNCHANGED <<registry, operation, conversation, response, errmsg, aboutClient,
                   conversationsToListenOn, dpc, message, connClosed, clientClosed, wire,
                   nread, crashed, history>>

\* second half: the grown slice is stored back, over whatever another goroutine
\* stored in between.
CreateAppend(s) ==
    /\ ~crashed
    /\ UNCHANGED <<codec, client>>
    /\ pc[s] = "create_append"
    /\ conversations' = Append(sliceHeader[s], conversation[s])
    /\ sliceHeader' = [sliceHeader EXCEPT ![s] = <<>>]
    /\ pc' = [pc EXCEPT ![s] = "create_index"]
    /\ UNCHANGED <<conversationIDs, conversationsByNickname, uuidCount, operation, conversation,
                   response, errmsg, aboutClient, conversationsToListenOn, dpc, message,
                   connClosed, clientClosed, wire, nread, crashed, history>>

\* `conversationIDs[conversation.ID] = true` and
\* `conversationsByNickname[conversation.Nickname] = conversation`; return nil.
\* Nothing reads conversationIDs, so the two writes are one step.
CreateIndex(s) ==
    /\ ~crashed
    /\ UNCHANGED <<codec, client>>
    /\ pc[s] = "create_index"
    /\ conversationIDs' = conversationIDs \cup {conversation[s].id}
    /\ conversationsByNickname' =
            [n \in DOMAIN conversationsByNickname \cup {conversation[s].nickname} |->
                IF n = conversation[s].nickname THEN conversation[s]
                ELSE conversationsByNickname[n]]
    /\ created' = Inc(created, conversation[s].nickname)
    /\ pc' = [pc EXCEPT ![s] = "respond"]
    /\ UNCHANGED <<conversations, uuidCount, locals, aboutClient,
                   conversationsToListenOn, dpc, message, connClosed, clientClosed, wire,
                   nread, crashed, owed, handshakes, rejected, overlapped>>
\* handleListConversations: json.Marshal(conversations)
ListConversations(s) ==
    /\ ~crashed
    /\ UNCHANGED <<codec, client>>
    /\ pc[s] = "list"
    /\ response' = [response EXCEPT ![s] = [kind |-> "list", conversations |-> conversations]]
    /\ pc' = [pc EXCEPT ![s] = "respond"]
    /\ UNCHANGED <<registry, operation, conversation, sliceHeader, errmsg, aboutClient,
                   conversationsToListenOn, dpc, message, connClosed, clientClosed, wire,
                   nread, crashed, history>>

\* handleSubscribe, `conversation, ok := conversationsByNickname[nickname]`
SubscribeLookup(s) ==
    /\ ~crashed
    /\ UNCHANGED <<codec, client>>
    /\ pc[s] = "subscribe_lookup"
    /\ IF NicknameTaken(conversation[s].nickname)
       THEN /\ conversation' = [conversation EXCEPT ![s] = conversationsByNickname[@.nickname]]
            /\ pc' = [pc EXCEPT ![s] = "subscribe_set"]
            /\ UNCHANGED errmsg
       ELSE /\ errmsg' = [errmsg EXCEPT ![s] = DoesNotExistError(conversation[s].nickname)]
            /\ pc' = [pc EXCEPT ![s] = "error_body"]
            /\ UNCHANGED conversation
    /\ UNCHANGED <<registry, operation, sliceHeader, response, aboutClient,
                   conversationsToListenOn, dpc, message, connClosed, clientClosed, wire,
                   nread, crashed, history>>

\* handleSubscribe, `conversationsToListenOn[convID] = true`; return nil
SubscribeSet(s) ==
    /\ ~crashed
    /\ UNCHANGED <<codec, client>>
    /\ pc[s] = "subscribe_set"
    /\ conversationsToListenOn' = [conversationsToListenOn EXCEPT ![s] = @ \cup {conversation[s].id}]
    /\ pc' = [pc EXCEPT ![s] = "respond"]
    /\ UNCHANGED <<registry, locals, aboutClient, dpc, message, connClosed, clientClosed,
                   wire, nread, crashed, history>>

\* the sessions a message is owed to when it is handed over: the Active ones whose
\* subscription map holds its conversation
Subscribers(m) ==
    {t \in Sessions : /\ dpc[t] \in {"select", "check"}
                      /\ ~m.conversation.isnil
                      /\ m.conversation.id \in conversationsToListenOn[t]}

\* mutant: every companion waiting in its select gets the value
ReceiversBroadcast(d) == {e \in Sessions : dpc[e] = "select"}

\* the companions that get a value sent on messagesChannel when companion d
\* receives it: a channel hands each value to one receiver
Receivers(d) == {d}

\* handleMessage's `messagesChannel <- convMessage` meeting the
\* `case message := <-messagesChannel` of one companion d, any session's: the
\* channel is unbuffered, so send and receive are one step and one receiver
\* takes the value.
Publish(s, d) ==
    /\ ~crashed
    /\ UNCHANGED <<codec, client>>
    /\ pc[s] = "publish"
    /\ dpc[d] = "select"
    /\ message' = [e \in Sessions |->
                    IF e \in Receivers(d) THEN operation[s].Message ELSE message[e]]
    /\ dpc' = [e \in Sessions |-> IF e \in Receivers(d) THEN "check" ELSE dpc[e]]
    /\ pc' = [pc EXCEPT ![s] = "respond"]
    /\ owed' = [t \in Sessions |->
                 IF t \in Subscribers(operation[s].Message)
                 THEN Append(owed[t], operation[s].Message) ELSE owed[t]]
    /\ UNCHANGED <<registry, locals, aboutClient, conversationsToListenOn, connClosed,
                   clientClosed, wire, nread, crashed, handshakes, created, rejected,
                   overlapped>>

\* mutant: the companion pushes whatever it receives
ShouldDeliverAlways(d, m) == TRUE

\* the test `conversationsToListenOn[message.Conversation.ID]`
ShouldDeliver(d, m) == m.conversation.id \in conversationsToListenOn[d]

\* subscribeToMessages after the receive: the subscription test and the push,
\* whose write error is ignored.
DeliverCheck(d) ==
    /\ ~crashed
    /\ UNCHANGED <<codec, client>>
    /\ dpc[d] = "check"
    /\ IF message[d].conversation.isnil
       THEN Panic    \* message.Conversation.ID with Conversation nil
       ELSE /\ \E ok \in WriteOutcomes(d) :
                wire' = IF ShouldDeliver(d, message[d])
                        THEN Written(d, Chunk(OKResponse(message[d], MessageOperationType), TRUE), ok)
                        ELSE wire
            /\ dpc' = [dpc EXCEPT ![d] = "select"]
            /\ message' = [message EXCEPT ![d] = NilPayload]
            /\ UNCHANGED <<registry, pc, locals, aboutClient, conversationsToListenOn,
                           connClosed, clientClosed, nread, crashed, history>>

\* `err = writeOKResponse(conn, response, operation.Type)` at the end of an
\* iteration; a failed write ends the loop by way of writeErrorResponse.
Respond(s) ==
    /\ ~crashed
    /\ UNCHANGED <<codec, client>>
    /\ pc[s] = "respond"
    /\ \E ok \in WriteOutcomes(s) :
        /\ wire' = Written(s, Chunk(OKResponse(response[s], operation[s].Type), TRUE), ok)
        /\ pc' = [pc EXCEPT ![s] = IF ok THEN "read" ELSE "error_body"]
        /\ errmsg' = [errmsg EXCEPT ![s] = IF ok THEN <<>> ELSE <<"write failed">>]
    /\ operation' = [operation EXCEPT ![s] = ZeroOperation]
    /\ conversation' = [conversation EXCEPT ![s] = NilConversation]
    /\ response' = [response EXCEPT ![s] = emptyJSON]
    /\ UNCHANGED <<registry, sliceHeader, aboutClient, conversationsToListenOn, dpc, message,
                   connClosed, clientClosed, nread, crashed, history>>

\* writeErrorResponse, `conn.Write(responseBytes)`
WriteErrorBody(s) ==
    /\ ~crashed
    /\ UNCHANGED <<codec, client>>
    /\ pc[s] = "error_body"
    /\ \E ok \in WriteOutcomes(s) :
        wire' = Written(s, Chunk(ErrorResponse(errmsg[s]), FALSE), ok)
    /\ pc' = [pc EXCEPT ![s] = "error_term"]
    /\ UNCHANGED <<registry, locals, aboutClient, conversationsToListenOn, dpc, message,
                   connClosed, clientClosed, nread, crashed, history>>

\* mutant: the loop goes on after an error response
AfterErrorContinue(s) == "read"

\* Where handleConnection goes after writeErrorResponse: `return` before the
\* companion exists, `break` and the deferred `quit <- true` after.
AfterError(s) == IF dpc[s] = "none" THEN "closed" ELSE "quit"

\* writeErrorResponse, `conn.Write(common.EOFBytes)` and `conn.Close()`
WriteErrorTerm(s) ==
    /\ ~crashed
    /\ UNCHANGED <<codec, client>>
    /\ pc[s] = "error_term"
    /\ \E ok \in WriteOutcomes(s) :
        wire' = Written(s, TerminatorChunk, ok)
    /\ connClosed' = [connClosed EXCEPT ![s] = TRUE]
    /\ pc' = [pc EXCEPT ![s] = AfterError(s)]
    /\ operation' = [operation EXCEPT ![s] = ZeroOperation]
    /\ conversation' = [conversation EXCEPT ![s] = NilConversation]
    /\ errmsg' = [errmsg EXCEPT ![s] = <<>>]
    /\ UNCHANGED <<registry, sliceHeader, response, aboutClient, conversationsToListenOn, dpc,
                   message, clientClosed, nread, crashed, history>>

\* mutant: the companion's select has no case for quit
InSelectNever(d) == FALSE

\* mutant: the companion takes the quit value wherever it is
InSelectOrPushing(d) == dpc[d] \in {"select", "check"}

\* subscribeToMessages is blocked in its select, ready to receive on either channel
InSelect(d) == dpc[d] = "select"

\* the deferred `quit <- true` meeting `case <-quit` of the session's companion
SendQuit(s) ==
    /\ ~crashed
    /\ UNCHANGED <<codec, client>>
    /\ pc[s] = "quit"
    /\ InSelect(s)
    /\ pc' = [pc EXCEPT ![s] = "closed"]
    /\ dpc' = [dpc EXCEPT ![s] = "done"]
    /\ UNCHANGED <<registry, locals, aboutClient, conversationsToListenOn, message, connClosed,
                   clientClosed, wire, nread, crashed, history>>

\* Two goroutines inside accesses to the same map, one of them writing: the Go
\* runtime may detect it and end the process (fatal error: concurrent map
\* writes, or concurrent map read and map write).
MapRace ==
    \/ \E s, t \in Sessions :
          /\ s # t
          /\ pc[s] = "create_index"
          /\ pc[t] \in {"create_index", "create_lookup", "subscribe_lookup"}
    \/ \E s \in Sessions : pc[s] = "subscribe_set" /\ dpc[s] = "check"

MapFault ==
    /\ ~crashed
    /\ MapRace
    /\ Panic

Next ==
    \/ \E s \in Sessions : Accept(s)
    \/ \E s \in Sessions : Handshake(s)
    \/ \E s \in Sessions : Read(s)
    \/ \E s \in Sessions : CreateNickname(s)
    \/ \E s \in Sessions : CreateLookup(s)
    \/ \E s \in Sessions : CreateLoad(s)
    \/ \E s \in Sessions : CreateAppend(s)
    \/ \E s \in Sessions : CreateIndex(s)
    \/ \E s \in Sessions : ListConversations(s)
    \/ \E s \in Sessions : SubscribeLookup(s)
    \/ \E s \in Sessions : SubscribeSet(s)
    \/ \E s, d \in Sessions : Publish(s, d)
    \/ \E d \in Sessions : DeliverCheck(d)
    \/ \E s \in Sessions : Respond(s)
    \/ \E s \in Sessions : WriteErrorBody(s)
    \/ \E s \in Sessions : WriteErrorTerm(s)
    \/ \E s \in Sessions : SendQuit(s)
    \/ MapFault

Spec == Init /\ [][Next]_vars

\* The steps the goroutines of connection s take without waiting for a client:
\* the Go scheduler runs every goroutine that can run.  What the clients send,
\* and when, is not constrained.
HandlerStep(s) ==
    \/ CreateNickname(s) \/ CreateLookup(s) \/ CreateLoad(s) \/ CreateAppend(s)
    \/ CreateIndex(s) \/ ListConversations(s) \/ SubscribeLookup(s) \/ SubscribeSet(s)
    \/ Respond(s) \/ WriteErrorBody(s) \/ WriteErrorTerm(s)

\* A channel operation both sides are ready for takes place; a select with
\* several ready cases picks among them at random, so a case that is ready again
\* and again is taken in the end.
Fairness ==
    \A s \in Sessions :
        /\ WF_vars(HandlerStep(s))
        /\ WF_vars(DeliverCheck(s))
        /\ WF_vars(\E d \in Sessions : Publish(s, d))
        /\ SF_vars(SendQuit(s))

FairSpec == Spec /\ Fairness

\* The server after its first client has connected as alice, created one
\* conversation without naming it and the conversation "1", subscribed to "1"
\* and been answered each time, while the second connection is yet to come.
SubscribedState ==
    /\ conversations = <<Conversation(1, "0"), Conversation(2, "1")>>
    /\ conversationIDs = {1, 2}
    /\ conversationsByNickname =
            [n \in {"0", "1"} |-> IF n = "0" THEN Conversation(1, "0") ELSE Conversation(2, "1")]
    /\ uuidCount = 2
    /\ pc = [s \in Sessions |-> IF s = 1 THEN "read" ELSE "idle"]
    /\ operation = [s \in Sessions |-> ZeroOperation]
    /\ conversation = [s \in Sessions |-> NilConversation]
    /\ sliceHeader = [s \in Sessions |-> <<>>]
    /\ response = [s \in Sessions |-> emptyJSON]
    /\ errmsg = [s \in Sessions |-> <<>>]
    /\ aboutClient = [s \in Sessions |->
            IF s = 1 THEN [set |-> TRUE, id |-> ClientID(1), name |-> "alice"] ELSE NoIdentity]
    /\ conversationsToListenOn = [s \in Sessions |-> IF s = 1 THEN {2} ELSE {}]
    /\ dpc = [s \in Sessions |-> IF s = 1 THEN "select" ELSE "none"]
    /\ message = [s \in Sessions |-> NilPayload]
    /\ connClosed = [s \in Sessions |-> FALSE]
    /\ clientClosed = [s \in Sessions |-> FALSE]
    /\ wire = [s \in Sessions |->
            IF s = 1
            THEN <<Chunk(OKResponse([set |-> TRUE, id |-> ClientID(1), name |-> "alice"],
                                    AboutMeOperationType), TRUE),
                   Chunk(OKResponse(emptyJSON, CreateOperationType), TRUE),
                   Chunk(OKResponse(emptyJSON, CreateOperationType), TRUE),
                   Chunk(OKResponse(emptyJSON, SubscribeOperationType), TRUE)>>
            ELSE <<>>]
    /\ crashed = FALSE
    /\ owed = [s \in Sessions |-> <<>>]
    /\ handshakes = [s \in Sessions |-> IF s = 1 THEN 1 ELSE 0]
    /\ created = [n \in {"0", "1"} |-> 1]
    /\ rejected = [n \in {} |-> 0]
    /\ overlapped = FALSE

\* The runs that go on from there, with a budget of operations counted from
\* that state on, one create taken off it.
OrderInit ==
    /\ SubscribedState
    /\ nread = [k \in OperationKinds |-> IF k = "create" THEN 1 ELSE 0]
    /\ CodecIdle
    /\ ClientIdle

OrderSpec == OrderInit /\ [][Next]_vars

\* The same runs with the goroutines scheduled as under FairSpec: session 1
\* starts with its companion running and a subscription, session 2 goes through
\* its whole life, handshake included.
TeardownSpec == OrderSpec /\ Fairness
\* ------------------------------------------------------ frame codec
\* The bytes told apart: the two of EOFBytes and any other.
Bytes == {"a", "\r", "\n"}

RECURSIVE BytesUpTo(_)
BytesUpTo(n) ==
    IF n = 0 THEN {<<>>}
    ELSE LET shorter == BytesUpTo(n - 1)
         IN  shorter \cup {Append(b, c) : b \in shorter, c \in Bytes}

\* bytes.Equal(delim, b[len(b)-len(delim):])
HasSuffix(b, delim) ==
    Len(b) >= Len(delim) /\ SubSeq(b, Len(b) - Len(delim) + 1, Len(b)) = delim

ContainsBytes(b, sub) ==
    \E i \in 1..(Len(b) - Len(sub) + 1) : SubSeq(b, i, i + Len(sub) - 1) = sub

\* The payloads a frame may carry: any bytes, none included, in which the
\* terminator does not occur.
Payloads == {p \in BytesUpTo(MaxLen) : ~ContainsBytes(p, EOFBytes)}

\* What json.Marshal returns: not empty, and no raw carriage return or line feed.
JSONRecords == {p \in Payloads : p # <<>> /\ \A i \in DOMAIN p : p[i] = "a"}

\* the records ps as frames on a stream: each followed by one terminator
RECURSIVE Framed(_)
Framed(ps) == IF ps = <<>> THEN <<>> ELSE (Head(ps) \o EOFBytes) \o Framed(Tail(ps))

server == <<registry, pc, locals, aboutClient, conversationsToListenOn, dpc, message,
            connClosed, clientClosed, wire, nread, crashed, history>>

\* A stream to try ReadUntil on: written frame by frame, each a payload followed
\* by EOFBytes, or written by the client's writeJSONTo.
CodecInit ==
    /\ ServerInit
    /\ writer \in {"frames", "writeJSONTo"}
    /\ written = <<>>
    /\ payloads = <<>>
    /\ delivered = 0
    /\ consumed = 0
    /\ closed = "open"
    /\ returnBytes = <<>>
    /\ results = <<>>
    /\ ClientIdle

\* one more frame on the stream: its payload, then the terminator
WriteFrame(p) ==
    /\ writer = "frames"
    /\ closed = "open"
    /\ Len(payloads) < MaxFrames
    /\ written' = written \o p \o EOFBytes
    /\ payloads' = Append(payloads, p)
    /\ UNCHANGED <<server, client, writer, delivered, consumed, closed, returnBytes, results>>

\* the client's writeJSONTo: `conn.Write(append(b, common.EOFBytes...))` and
\* then `conn.Write(common.EOFBytes)`
writeJSONTo(b) ==
    /\ writer = "writeJSONTo"
    /\ closed = "open"
    /\ Len(payloads) < MaxFrames
    /\ written' = (written \o b \o EOFBytes) \o EOFBytes
    /\ payloads' = Append(payloads, b)
    /\ UNCHANGED <<server, client, writer, delivered, consumed, closed, returnBytes, results>>

\* the transport hands the reader the next n bytes, however they were written
Deliver(n) ==
    /\ closed # "error"
    /\ delivered + n <= Len(written)
    /\ delivered' = delivered + n
    /\ UNCHANGED <<server, client, writer, written, payloads, consumed, closed, returnBytes, results>>

\* The stream ends: the writer closes it, or the connection breaks and what
\* had not arrived is lost.
CloseStream(how) ==
    /\ writer # "none"
    /\ closed = "open"
    /\ closed' = how
    /\ UNCHANGED <<server, client, writer, written, payloads, delivered, consumed, returnBytes, results>>

\* nothing more will arrive
AtEnd == closed = "error" \/ (closed = "eof" /\ delivered = Len(written))

\* bufio's ReadBytes(delim) on the bytes that have arrived and are unread: the
\* data up to and including the first delim; at the end of the stream what is
\* left and the error; otherwise it waits.
ReadBytes(avail, lastChar) ==
    LET at == {i \in DOMAIN avail : avail[i] = lastChar}
    IN  IF at # {}
        THEN [blocked |-> FALSE, err |-> "nil",
              b |-> SubSeq(avail, 1, CHOOSE i \in at : \A k \in at : i <= k)]
        ELSE IF AtEnd
        THEN [blocked |-> FALSE, err |-> IF closed = "eof" THEN "EOF" ELSE "reset", b |-> avail]
        ELSE [blocked |-> TRUE, err |-> "nil", b |-> <<>>]

\* ReadUntil's named result err: the loop declares its own err with
\* `b, err := r.ReadBytes(lastChar)`, so the one returned is never assigned.
ReturnedErr(err) == "nil"

\* `len(returnBytes) > len(delim)` and the suffix test
FrameComplete(acc, delim) == Len(acc) > Len(delim) /\ HasSuffix(acc, delim)

\* common.ReadUntil(r, EOFBytes), one iteration of its loop; the call returns
\* when the loop breaks and the next iteration belongs to the next call.
ReadUntil ==
    /\ writer # "none"
    /\ Len(results) < MaxReads
    /\ LET r == ReadBytes(SubSeq(written, consumed + 1, delivered), EOFBytes[Len(EOFBytes)])
           acc == returnBytes \o r.b
       IN  /\ ~r.blocked
           /\ consumed' = consumed + Len(r.b)
           /\ IF r.err # "nil"
              THEN /\ results' = Append(results, [bytes |-> returnBytes,
                                                   err |-> ReturnedErr(r.err), cause |-> r.err])
                   /\ returnBytes' = <<>>
              ELSE IF FrameComplete(acc, EOFBytes)
              THEN /\ results' = Append(results, [bytes |-> acc, err |-> "nil", cause |-> "nil"])
                   /\ returnBytes' = <<>>
              ELSE /\ returnBytes' = acc
                   /\ UNCHANGED results
    /\ UNCHANGED <<server, client, writer, written, payloads, delivered, closed>>

CodecNext ==
    \/ \E p \in Payloads : WriteFrame(p)
    \/ \E b \in JSONRecords : writeJSONTo(b)
    \/ \E n \in 1..(MaxFrames * (MaxLen + 2 * Len(EOFBytes))) : Deliver(n)
    \/ \E how \in {"eof", "error"} : CloseStream(how)
    \/ ReadUntil

CodecSpec == CodecInit /\ [][CodecNext]_vars

\* ------------------------------------------------- client receiver
\* handleIncoming of the client, reading the responses and pushes the server
\* writes as frames, and the deferred `quit <- true` of the client's
\* handleConnection.  Time is counted in seconds; a step that does not wait takes
\* no time.

\* `conn.SetReadDeadline(time.Now().Add(2 * time.Second))`
ReadTimeout == 2

\* The client starts reading: the server's frames are yet to be written,
\* handleConnection is running and handleIncoming is at the top of its loop.
ClientInit ==
    /\ ServerInit
    /\ writer = "frames"
    /\ written = <<>>
    /\ payloads = <<>>
    /\ delivered = 0
    /\ consumed = 0
    /\ closed = "open"
    /\ returnBytes = <<>>
    /\ results = <<>>
    /\ incoming = "select"
    /\ quit = "idle"
    /\ deadline = 0
    /\ waited = 0
    /\ retried = 0
    /\ dispatched = <<>>
    /\ SenderIdle

\* where the k-th frame begins on the stream
Offset(k) == Len(Framed(SubSeq(payloads, 1, k - 1)))

\* the frames whose record has a byte among the bytes from..to of the stream
Touched(from, to) ==
    {k \in DOMAIN payloads :
        \E i \in (Offset(k) + 1)..(Offset(k) + Len(payloads[k])) : from <= i /\ i <= to}

\* json.Unmarshal(buf[:nBytes], v) on the bytes from..to: it takes one JSON value
\* with white space (carriage returns and line feeds included) around it.  A
\* record cut short is a syntax error, and so are bytes after the value and
\* white space alone.
Unmarshal(from, to) ==
    LET t == Touched(from, to)
    IN  IF /\ Cardinality(t) = 1
           /\ \A k \in t : from <= Offset(k) + 1 /\ Offset(k) + Len(payloads[k]) <= to
        THEN [err |-> "nil", v |-> payloads[CHOOSE k \in t : TRUE]]
        ELSE [err |-> "syntax", v |-> <<>>]

\* mutant: a send waiting on quit is not looked at
QuitReadyNever == FALSE

\* `case <-quit` can be taken: the deferred send is waiting
QuitReady == quit = "sending"

\* the top of handleIncoming's loop: `select { case <-quit: return; default: ... }`
\* and, in the default case, the read deadline set two seconds ahead
IncomingSelect ==
    /\ incoming = "select"
    /\ IF QuitReady
       THEN /\ incoming' = "returned"
            /\ quit' = "received"
            /\ UNCHANGED deadline
       ELSE /\ incoming' = "read"
            /\ deadline' = ReadTimeout
            /\ UNCHANGED quit
    /\ UNCHANGED <<server, codec, waited, retried, dispatched, sender>>

\* `if errors.Is(err, os.ErrDeadlineExceeded) { continue }`
AfterTimeout == "select"

\* readJSONFrom and what handleIncoming does with its result: one Read on a
\* fresh bufio.Reader returns the bytes that have arrived, or an error at the end
\* of the stream or when the deadline has passed; the bytes are unmarshalled as
\* one Response, which is handed to handleResponse.  common.CheckError exits the
\* process on any error that is not the deadline.
readJSONFrom ==
    /\ incoming = "read"
    /\ IF consumed < delivered
       THEN LET u == Unmarshal(consumed + 1, delivered)
            IN  /\ consumed' = delivered
                /\ IF u.err = "nil"
                   THEN /\ dispatched' = Append(dispatched, u.v)
                        /\ incoming' = "select"
                   ELSE /\ incoming' = "exited"
                        /\ UNCHANGED dispatched
                /\ UNCHANGED retried
       ELSE IF AtEnd
       THEN /\ incoming' = "exited"
            /\ UNCHANGED <<consumed, dispatched, retried>>
       ELSE /\ deadline = 0
            /\ incoming' = AfterTimeout
            /\ retried' = IF retried < MaxRetried THEN retried + 1 ELSE retried
            /\ UNCHANGED <<consumed, dispatched>>
    /\ UNCHANGED <<server, writer, written, payloads, delivered, closed, returnBytes, results,
                   quit, deadline, waited, sender>>

\* a second passes while the read waits for bytes
Tick ==
    /\ incoming = "read"
    /\ consumed = delivered
    /\ ~AtEnd
    /\ deadline > 0
    /\ deadline' = deadline - 1
    /\ waited' = IF quit = "sending" THEN waited + 1 ELSE waited
    /\ UNCHANGED <<server, codec, incoming, quit, retried, dispatched, sender>>

\* the client's handleConnection returns and its deferred `quit <- true` begins
\* to wait for handleIncoming
RequestQuit ==
    /\ quit = "idle"
    /\ incoming \in {"select", "read"}
    /\ quit' = "sending"
    /\ waited' = 0
    /\ UNCHANGED <<server, codec, incoming, deadline, retried, dispatched, sender>>

ClientNext ==
    \/ \E p \in JSONRecords : WriteFrame(p)
    \/ \E n \in 1..(MaxFrames * (MaxLen + Len(EOFBytes))) : Deliver(n)
    \/ \E how \in {"eof", "error"} : CloseStream(how)
    \/ IncomingSelect
    \/ readJSONFrom
    \/ Tick
    \/ RequestQuit

ClientSpec == ClientInit /\ [][ClientNext]_vars

\* ------------------------------------------------ client sender
\* sendMessage of the client and the cache it looks conversations up in,
\* globalConversations, which handleListOperationResponse fills from the list
\* responses while handleConnection goes on reading the user's commands.

\* the conversations the server may list to the client
ServerConversations ==
    {Conversation(1, "General"), Conversation(2, "news"), Conversation(3, "later")}

\* the arrays a list response may carry: conversations of the server, none twice
ListResponses ==
    {l \in UNION {[1..n -> ServerConversations] : n \in 0..MaxCached} :
        \A i, j \in DOMAIN l : i # j => l[i] # l[j]}

\* the nicknames the user may type after the message command
UserNicknames == {"general", "NEWS", "later", "nowhere"}

\* strings.ToLower on the nicknames of this model
ToLower(n) ==
    CASE n = "General" -> "general"
      [] n = "NEWS" -> "news"
      [] OTHER -> n

\* `emptyConversation := common.Conversation{}`, returned by address
emptyConversation == Conversation(0, "")

\* getConversationByNickname: the first cached conversation whose nickname is
\* the given one, letter case apart; an empty conversation and an error when
\* there is none.
getConversationByNickname(nickname) ==
    LET hits == {i \in DOMAIN globalConversations :
                    ToLower(globalConversations[i].nickname) = ToLower(nickname)}
    IN  IF hits # {}
        THEN [conversation |-> globalConversations[CHOOSE i \in hits : \A j \in hits : i <= j],
              err |-> "nil"]
        ELSE [conversation |-> emptyConversation, err |-> "not found"]

\* The client runs with nothing cached: handleConnection is in its command
\* loop, handleIncoming is running.
SenderInit ==
    /\ ServerInit
    /\ CodecIdle
    /\ incoming = "select"
    /\ quit = "idle"
    /\ deadline = 0
    /\ waited = 0
    /\ retried = 0
    /\ dispatched = <<>>
    /\ SenderIdle

\* handleListOperationResponse: handleIncoming got a list response and
\* `json.Unmarshal(*jsonConversations, &globalConversations)` begins
handleListOperationResponse(l) ==
    /\ incoming \in {"select", "read"}
    /\ ~decoding.active
    /\ decoding' = [active |-> TRUE, list |-> l, i |-> 0]
    /\ UNCHANGED <<server, codec, incoming, quit, deadline, waited, retried, dispatched,
                   globalConversations, sent>>

\* json.Unmarshal into the slice, an element at a time: element i of the array
\* is decoded into element i of the slice, which is lengthened when it is too
\* short; after the last one the slice is cut to the length of the array.
UnmarshalElement ==
    /\ decoding.active
    /\ IF decoding.i < Len(decoding.list)
       THEN LET k == decoding.i + 1
                n == IF Len(globalConversations) < k THEN k ELSE Len(globalConversations)
            IN  /\ globalConversations' =
                        [j \in 1..n |-> IF j = k THEN decoding.list[k] ELSE globalConversations[j]]
                /\ decoding' = [decoding EXCEPT !.i = k]
       ELSE /\ globalConversations' = SubSeq(globalConversations, 1, Len(decoding.list))
            /\ decoding' = NoDecoding
    /\ UNCHANGED <<server, codec, incoming, quit, deadline, waited, retried, dispatched, sent>>

\* the message operation sendMessage marshals for conversation c
MessageOperation(c) ==
    [Type |-> MessageOperationType,
     Message |-> ObjPayload("alice", "", c, Text(Len(sent) + 1))]

\* mutant: the error of the lookup is returned before anything is sent
LookupPassesChecked(found) == found.err = "nil"

\* What sendMessage does with the error of the lookup: `conversation, err :=
\* getConversationByNickname(convNickname)` is followed by no test, and err is
\* assigned again by json.Marshal.
LookupPasses(found) == TRUE

\* sendMessage for the nickname the user typed: the text is scanned, the
\* conversation looked up, the message marshalled and written.  A failed scan or
\* write returns an error, at which handleConnection leaves its loop and its
\* deferred `quit <- true` begins.
sendMessage(nickname) ==
    /\ quit = "idle"
    /\ Len(sent) < MaxSent
    /\ \E scanned, ok \in BOOLEAN :
        LET found == getConversationByNickname(nickname)
        IN  IF scanned /\ LookupPasses(found) /\ ok
            THEN /\ sent' = Append(sent, MessageOperation(found.conversation))
                 /\ UNCHANGED <<quit, waited>>
            ELSE /\ quit' = "sending"
                 /\ waited' = 0
                 /\ UNCHANGED sent
    /\ UNCHANGED <<server, codec, incoming, deadline, retried, dispatched,
                   globalConversations, decoding>>

SenderNext ==
    \/ \E l \in ListResponses : handleListOperationResponse(l)
    \/ UnmarshalElement
    \/ \E n \in UserNicknames : sendMessage(n)

SenderSpec == SenderInit /\ [][SenderNext]_vars

\* ------------------------------------------------ reading the state
\* handleConnection is inside its loop
LoopPCs == {"read", "create_nickname", "create_lookup", "create_load", "create_append",
            "create_index", "subscribe_lookup", "subscribe_set", "publish", "list", "respond"}

\* the statements that read or write the registry globals
RegistryPCs == {"create_nickname", "create_lookup", "create_load", "create_append",
                "create_index", "subscribe_lookup", "list"}

Active(s) == pc[s] \in LoopPCs /\ ~connClosed[s]

IsPush(c) == c.hasBody /\ c.body.Status = "ok" /\ c.body.OperationType = MessageOperationType
             /\ c.body.Message.kind = "obj"

Pushes(s) == SelectSeq(wire[s], IsPush)

\* connection s carries an error response with message e: its body and, in a
\* later write, its terminator (a push of the companion may fall between them)
ErrorAnswered(s, e) ==
    \E i, j \in DOMAIN wire[s] :
        /\ i < j
        /\ wire[s][i].hasBody
        /\ wire[s][i].body.Status = "error"
        /\ wire[s][i].body.Error = e
        /\ ~wire[s][j].hasBody

\* the nicknames a create or a subscribe can carry in this model
Nicknames == CreateNicknames \cup SubscribeNicknames \cup {Itoa(n) : n \in 0..MaxCreates}

\* ------------------------------------------------------------ claims

\* C1: every message handed to the channel while session S is Active and
\* subscribed to its conversation is written to S's connection: once no companion
\* holds a message any more, a still Active S has been pushed every message it
\* was owed.
C1_FanOutDelivery ==
    (\A d \in Sessions : dpc[d] # "check")
        => \A s \in Sessions : Active(s) => Len(Pushes(s)) = Len(owed[s])

\* C2: a message frame is pushed on a connection only if the session's
\* subscription set holds the message's conversation id; a session that
\* subscribed to nothing is pushed nothing.
C2_PushOnlyIfSubscribed ==
    \A s \in Sessions : \A i \in DOMAIN wire[s] :
        IsPush(wire[s][i]) => wire[s][i].body.Message.conversation.id \in conversationsToListenOn[s]

\* C2 witness: a subscriber was pushed a message that another session, itself
\* subscribed to nothing, published and had acknowledged.
C2_Witness ==
    \E s, t \in Sessions :
        /\ s # t
        /\ Len(Pushes(s)) = 1
        /\ conversationsToListenOn[t] = {}
        /\ Pushes(t) = <<>>
        /\ \E i \in DOMAIN wire[t] :
              wire[t][i].body = OKResponse(emptyJSON, MessageOperationType)

\* C3: the registry never lists two conversations with the same nickname, nor
\* two with the same id.
C3_RegistryUnique ==
    \A i, j \in DOMAIN conversations :
        i # j => /\ conversations[i].nickname # conversations[j].nickname
                 /\ conversations[i].id # conversations[j].id
\* the conversations the list holds under nickname n
Listed(n) == {i \in DOMAIN conversations : conversations[i].nickname = n}

\* the rejections of nickname n that are being answered or stand answered
RejectionsAnswered(n) ==
    Cardinality({s \in Sessions :
        \/ pc[s] \in {"error_body", "error_term"} /\ errmsg[s] = AlreadyExistsError(n)
        \/ ErrorAnswered(s, AlreadyExistsError(n))})

\* C4: when the creates of a nickname n run one after the other, the first
\* succeeds and every later one is rejected with the already-exists error, which
\* is what its connection is answered; the registry holds one conversation
\* with nickname n.
C4_SequentialDuplicateCreate ==
    ~overlapped =>
        \A n \in Nicknames :
            /\ Count(created, n) <= 1
            /\ Count(rejected, n) > 0 => Count(created, n) = 1
            /\ Count(created, n) = 1 => Cardinality(Listed(n)) = 1 /\ NicknameTaken(n)
            /\ RejectionsAnswered(n) = Count(rejected, n)

\* C4 witness: nickname "1" was created once and a second create of it was
\* rejected and answered, no two creates having run at once.
C4_Witness ==
    /\ ~overlapped
    /\ Count(created, "1") = 1
    /\ Count(rejected, "1") = 1
    /\ \E s \in Sessions : ErrorAnswered(s, AlreadyExistsError("1"))

\* C5: no two goroutines are at accesses to the same shared structure at once:
\* not two handlers at the registry globals, nor a handler writing its
\* subscription map while its companion reads it.
C5_MutualExclusion ==
    /\ \A s, t \in Sessions : s # t => ~(pc[s] \in RegistryPCs /\ pc[t] \in RegistryPCs)
    /\ \A s \in Sessions : ~(pc[s] = "subscribe_set" /\ dpc[s] = "check")

Contains(e, n) == \E i \in DOMAIN e : e[i] = n

EndsWithError(s) ==
    \E i, j \in DOMAIN wire[s] :
        /\ i < j
        /\ wire[s][i].hasBody
        /\ wire[s][i].body.Status = "error"
        /\ wire[s][i].body.Error # <<>>
        /\ ~wire[s][j].hasBody

C9_ServerSurvives == ~crashed

\* C10: the handshake completes once per connection and before any operation
\* is dispatched, and no later frame changes the identity it recorded.
C10_HandshakeOnce ==
    /\ [](\A s \in Sessions :
            /\ handshakes[s] <= 1
            /\ pc[s] \in LoopPCs => handshakes[s] = 1 /\ aboutClient[s].set
            /\ aboutClient[s].set => aboutClient[s].name = "alice")
    /\ [][\A s \in Sessions :
            (aboutClient[s].set /\ ~crashed') => aboutClient'[s] = aboutClient[s]]_vars

\* C10 witness: a session whose identity is alice was sent an aboutme operation
\* naming bob inside the loop and answered it.
C10_Witness ==
    \E s \in Sessions :
        /\ aboutClient[s].name = "alice"
        /\ pc[s] = "read"
        /\ \E i \in DOMAIN wire[s] :
              wire[s][i].body = OKResponse(emptyJSON, AboutMeOperationType)

\* C11: a connection whose first frame does not decode to an identity is handed
\* to writeErrorResponse, which answers the error and closes it: the step that
\* takes the first frame without completing the handshake goes to the error
\* response, starts no companion and leaves the registry as it was.
C11_FailedHandshakeRejected ==
    [][\A s \in Sessions :
          (pc[s] = "handshake" /\ pc'[s] # "handshake" /\ handshakes'[s] = handshakes[s])
              => /\ pc'[s] = "error_body"
                 /\ errmsg'[s] # <<>>
                 /\ dpc'[s] = "none"
                 /\ ~connClosed'[s] /\ ~crashed'
                 /\ registry' = registry]_vars

\* handleConnection has left its loop, or never entered it
LoopExited(s) == pc[s] \in {"error_body", "error_term", "quit", "closed"}

\* C12: the loop of a session and its companion end together.  The companion
\* ends only in the step in which it takes the value the deferred `quit <- true`
\* sends, waiting in its select at that moment, and so never while the loop is
\* running; once the loop has been left the companion ends (or the process has).
C12_TornDownTogether ==
    /\ [](\A s \in Sessions : dpc[s] = "done" => pc[s] = "closed" /\ connClosed[s])
    /\ [][\A s \in Sessions :
            (dpc[s] # "done" /\ dpc'[s] = "done")
                => pc[s] = "quit" /\ dpc[s] = "select" /\ pc'[s] = "closed"]_vars
    /\ \A s \in Sessions :
            (handshakes[s] = 1 /\ LoopExited(s)) ~> (dpc[s] = "done" \/ crashed)

\* C12 witness: a session that subscribed and then met an error has closed its
\* connection and its companion has ended, while another session is still in its loop.
C12_Witness ==
    \E s, t \in Sessions :
        /\ s # t
        /\ conversationsToListenOn[s] # {}
        /\ dpc[s] = "done"
        /\ pc[s] = "closed"
        /\ Active(t)

\* handleConnection has returned and the companion, if one was started, too:
\* nothing refers to the connection or to its subscription map any more
Released(s) == pc[s] = "closed" /\ connClosed[s] /\ dpc[s] \in {"none", "done"}

C14_SequentialDispatch ==
    /\ [](\A s \in Sessions :
            pc[s] = "respond" =>
                /\ operation[s].Type = CreateOperationType
                      => /\ \E i \in DOMAIN conversations : conversations[i] = conversation[s]
                         /\ NicknameTaken(conversation[s].nickname)
                /\ operation[s].Type = SubscribeOperationType
                      => \E i \in DOMAIN conversations :
                            /\ conversations[i].nickname = conversation[s].nickname
                            /\ conversations[i].id \in conversationsToListenOn[s])
    /\ [][\A s \in Sessions :
            (pc[s] \in LoopPCs \ {"read"} /\ pc'[s] = "read")
                => /\ pc[s] = "respond"
                   /\ wire'[s] = Append(wire[s], Chunk(OKResponse(response[s], operation[s].Type), TRUE))]_vars

\* the number a client gave the message with text t
SeqNo(t) == CHOOSE n \in 1..(MaxMessages + 1) : Text(n) = t

\* C15: the messages of one sender that are pushed on a connection appear there
\* in the order the sender published them.
C15_PerSenderOrder ==
    \A s \in Sessions : \A i, j \in DOMAIN wire[s] :
        (/\ i < j
         /\ IsPush(wire[s][i]) /\ IsPush(wire[s][j])
         /\ wire[s][i].body.Message.name = wire[s][j].body.Message.name)
            => SeqNo(wire[s][i].body.Message.text) < SeqNo(wire[s][j].body.Message.text)

\* C15 witness: the subscriber was pushed two messages that the other session
\* published one after the other.
C15_Witness ==
    \E s, t \in Sessions : \E i, j \in DOMAIN wire[s] :
        /\ s # t
        /\ i < j
        /\ IsPush(wire[s][i]) /\ IsPush(wire[s][j])
        /\ wire[s][i].body.Message.name = ToString(t)
        /\ wire[s][j].body.Message.name = ToString(t)
        /\ wire[s][i].body.Message.text = Text(1)
        /\ wire[s][j].body.Message.text = Text(2)

\* the goroutines of connection s are scheduled and its handler's send on
\* messagesChannel is taken by its own companion when that one is ready again
\* and again; nothing is assumed of the other connections
OwnFairness(s) ==
    /\ WF_vars(HandlerStep(s))
    /\ WF_vars(DeliverCheck(s))
    /\ SF_vars(Publish(s, s))

\* C16: a handler that publishes waits for no other session.  Its own companion
\* is there to take the message, so with its own goroutines running, and
\* whatever the other sessions do or fail to do, it comes to write the ok
\* response with the empty payload and is back at its read (unless the process
\* dies).  A message taken by a companion that is not subscribed to it, or whose
\* connection the server has closed, is dropped: nothing is written anywhere.
C16_PublishNeverBlocks ==
    /\ [](\A s \in Sessions : pc[s] = "publish" => dpc[s] \in {"select", "check"})
    /\ [][\A s \in Sessions :
            (pc[s] = "respond" /\ operation[s].Type = MessageOperationType
                /\ pc'[s] # pc[s] /\ ~crashed')
                => /\ pc'[s] = "read"
                   /\ wire'[s] = Append(wire[s], Chunk(OKResponse(emptyJSON, MessageOperationType), TRUE))]_vars
    /\ [][\A d \in Sessions :
            (dpc[d] = "check" /\ dpc'[d] = "select"
                /\ (connClosed[d] \/ ~ShouldDeliver(d, message[d])))
                => wire' = wire]_vars
    /\ \A s \in Sessions :
            OwnFairness(s) => ((pc[s] = "publish") ~> (pc[s] = "read" \/ crashed))

\* C16 witness: a publisher has its ok response and is back at its read while
\* the other session, having taken the message, still holds it and that
\* session's connection is closed.
C16_Witness ==
    \E s, t \in Sessions :
        /\ s # t
        /\ pc[s] = "read"
        /\ wire[s][Len(wire[s])] = Chunk(OKResponse(emptyJSON, MessageOperationType), TRUE)
        /\ dpc[t] = "check"
        /\ connClosed[t]

\* C17: on a stream written frame by frame, each payload followed by the
\* terminator, the k-th ReadUntil call that returns a frame returns the k-th
\* payload, byte for byte and without the terminator, however the bytes arrive.
C17_ReadFrameRoundTrip ==
    writer = "frames" =>
        \A k \in DOMAIN results :
            results[k].cause = "nil"
                => k \in DOMAIN payloads /\ results[k].bytes = payloads[k]

\* C18: a ReadUntil call that met the end of the stream or a transport error
\* before a terminator returns an error.
C18_EndOfStreamFails ==
    \A k \in DOMAIN results : results[k].cause # "nil" => results[k].err # "nil"

\* the calls before the k-th returned one frame each
InStep(k) ==
    \A j \in 1..(k - 1) :
        /\ j \in DOMAIN results \cap DOMAIN payloads
        /\ results[j].bytes = payloads[j] \o EOFBytes

\* C19: a frame with an empty payload is returned on its own: the call that
\* reads it returns when its terminator has been read, with nothing of the next
\* frame and not because the stream ended, and the accumulator never holds a
\* whole empty frame while the call goes on reading.
C19_ZeroLengthFrame ==
    writer = "frames" =>
        /\ \A k \in DOMAIN results \cap DOMAIN payloads :
              (payloads[k] = <<>> /\ InStep(k))
                  => results[k].cause = "nil" /\ results[k].bytes \in {<<>>, EOFBytes}
        /\ InStep(Len(results) + 1) => returnBytes # EOFBytes

\* C20: what a writer has put on the stream is, frame after frame, the record
\* followed by one terminator, and nothing else.
C20_OneTerminatorPerFrame == written = Framed(payloads)

\* the decimal numerals, written out
Decimal(n) == CASE n = 0 -> "0" [] n = 1 -> "1" [] n = 2 -> "2" [] n = 3 -> "3" [] OTHER -> "?"

\* the create in hand on connection s named no nickname
Unnamed(s) ==
    operation[s].Type = CreateOperationType /\ operation[s].Message.nickname = ""

\* C21: a create that names no nickname is given the decimal string of the
\* length of the conversations list as the handler reads it; when the nickname
\* index already holds that string the create is rejected with the
\* already-exists error naming it and the registry stays as it was, otherwise
\* the conversation is registered under it.
C21_FallbackNickname ==
    /\ [][\A s \in Sessions :
            (pc[s] = "create_nickname" /\ pc'[s] # pc[s] /\ ~crashed')
                => /\ Unnamed(s)
                   /\ conversation'[s].nickname = Decimal(Len(conversations))
                   /\ conversation'[s].id = conversation[s].id
                   /\ pc'[s] = "create_lookup"
                   /\ registry' = registry]_vars
    /\ [][\A s \in Sessions :
            (pc[s] = "create_lookup" /\ Unnamed(s) /\ pc'[s] # pc[s] /\ ~crashed')
                => IF conversation[s].nickname \in DOMAIN conversationsByNickname
                   THEN /\ pc'[s] = "error_body"
                        /\ errmsg'[s] = <<"conversation with nickname '",
                                          conversation[s].nickname, "' already exists">>
                        /\ registry' = registry
                   ELSE pc'[s] = "create_load"]_vars
    /\ [][\A s \in Sessions :
            (pc[s] = "create_index" /\ Unnamed(s) /\ pc'[s] # pc[s] /\ ~crashed')
                => /\ conversation[s].nickname \in DOMAIN conversationsByNickname'
                   /\ conversationsByNickname'[conversation[s].nickname] = conversation[s]
                   /\ conversation[s].nickname \in {Decimal(n) : n \in 0..MaxCreates}]_vars

\* C21 witness: with the conversation "1" alone in the registry, a create that
\* named no nickname was given "1" and is being answered that it already exists.
C21_Witness ==
    \E s \in Sessions :
        /\ Unnamed(s)
        /\ pc[s] = "error_body"
        /\ errmsg[s] = AlreadyExistsError("1")
        /\ Len(conversations) = 1
        /\ conversations[1].nickname = "1"
        /\ DOMAIN conversationsByNickname = {"1"}

\* json.Marshal of a Conversation, as a response payload
ConversationJSON(c) == [kind |-> "conversation", id |-> c.id, nickname |-> c.nickname]

\* C22: the ok response that answers a successful create carries the created
\* conversation, with the id it was given and the nickname it was registered
\* under, as its payload.
C22_CreateRespondsConversation ==
    [][\A s \in Sessions :
          (pc[s] = "respond" /\ operation[s].Type = CreateOperationType /\ pc'[s] = "read")
              => wire'[s] = Append(wire[s],
                    Chunk(OKResponse(ConversationJSON(conversation[s]), CreateOperationType), TRUE))]_vars

\* how many of the conversations in list l carry nickname n
Occurrences(l, n) == Cardinality({i \in DOMAIN l : l[i].nickname = n})

\* C23: a list is answered ok with the conversations created so far, each of
\* them once and none that is not yet fully registered: what the handler
\* serialises holds, for every nickname, as many conversations as creates of
\* that nickname have completed, and that payload is what the response carries.
C23_ListSnapshot ==
    /\ [][\A s \in Sessions :
            (pc[s] = "list" /\ pc'[s] = "respond")
                => /\ response'[s].kind = "list"
                   /\ \A n \in Nicknames :
                         Occurrences(response'[s].conversations, n) = Count(created, n)]_vars
    /\ [][\A s \in Sessions :
            (pc[s] = "respond" /\ operation[s].Type = ListOperationType /\ pc'[s] = "read")
                => wire'[s] = Append(wire[s], Chunk(OKResponse(response[s], ListOperationType), TRUE))]_vars

\* the types the switch of handleConnection has a case for
SwitchTypes == {CreateOperationType, SubscribeOperationType, MessageOperationType,
                ListOperationType}

\* C24: an operation of a type the switch has no case for is tolerated.  The
\* step that reads it goes straight to the response and touches nothing shared;
\* the response is ok, names the type and carries the empty payload; the loop
\* is back at its read with the connection open, and the registry, the
\* subscription set and what the companions hold are as they were.
C24_UnknownOperationTolerated ==
    /\ [][\A s \in Sessions :
            (pc[s] = "read" /\ pc'[s] # "read" /\ ~crashed'
                /\ operation'[s] # ZeroOperation /\ operation'[s].Type \notin SwitchTypes)
                => /\ pc'[s] = "respond"
                   /\ response'[s] = emptyJSON
                   /\ registry' = registry
                   /\ conversationsToListenOn' = conversationsToListenOn
                   /\ <<dpc, message, owed, wire, connClosed>>' = <<dpc, message, owed, wire, connClosed>>]_vars
    /\ [][\A s \in Sessions :
            (pc[s] = "respond" /\ operation[s].Type \notin SwitchTypes
                /\ pc'[s] # pc[s] /\ ~crashed')
                => /\ pc'[s] = "read"
                   /\ wire'[s] = Append(wire[s], Chunk(OKResponse(emptyJSON, operation[s].Type), TRUE))
                   /\ ~connClosed'[s]
                   /\ registry' = registry
                   /\ conversationsToListenOn' = conversationsToListenOn
                   /\ <<dpc, message, owed>>' = <<dpc, message, owed>>]_vars

\* C24 witness: a session holding a subscription was sent an operation of
\* unknown type without payload, answered it ok with the empty payload as the
\* last thing on its connection, and is at its read with the subscription kept.
C24_Witness ==
    \E s \in Sessions :
        /\ pc[s] = "read"
        /\ ~connClosed[s]
        /\ conversationsToListenOn[s] # {}
        /\ wire[s][Len(wire[s])] = Chunk(OKResponse(emptyJSON, "ping"), TRUE)

\* the ids of the conversations the registry lists
ListedIDs == {conversations[i].id : i \in DOMAIN conversations}

\* C25: a subscription set holds only ids of conversations the registry holds,
\* listed and recorded by id; it changes only in a successful subscribe, which
\* adds the id of the conversation the nickname index gave for the nickname and
\* nothing else; a subscribe to a nickname the index does not hold adds nothing.
C25_SubscriptionsInRegistry ==
    /\ [](\A s \in Sessions :
            conversationsToListenOn[s] \subseteq (ListedIDs \cap conversationIDs))
    /\ [][\A s \in Sessions :
            (pc[s] = "subscribe_lookup" /\ pc'[s] # pc[s] /\ ~crashed')
                => /\ conversationsToListenOn' = conversationsToListenOn
                   /\ IF conversation[s].nickname \in DOMAIN conversationsByNickname
                      THEN /\ pc'[s] = "subscribe_set"
                           /\ conversation'[s] = conversationsByNickname[conversation[s].nickname]
                      ELSE pc'[s] = "error_body"]_vars
    /\ [][\A s \in Sessions :
            (conversationsToListenOn'[s] # conversationsToListenOn[s] /\ ~crashed')
                => /\ pc[s] = "subscribe_set"
                   /\ conversationsToListenOn'[s] = conversationsToListenOn[s] \cup {conversation[s].id}
                   /\ \A t \in Sessions \ {s} :
                         conversationsToListenOn'[t] = conversationsToListenOn[t]]_vars

\* the objects the client on connection s may introduce itself with
Introductions(s) ==
    {f.payload : f \in {g \in FirstFrames(s) : g.valid /\ g.payload.kind = "obj"}}

\* identity a is what the handshake makes of introduction p on connection s: the
\* name given, and the id given or, when none is given, the one the server made
IdentityOf(a, p, s) ==
    /\ a.set
    /\ a.name = p.name
    /\ a.id = (IF p.id = 0 THEN 100 + s ELSE p.id)

\* C26: a session is in its loop only after its handshake, and the handshake
\* writes, as the first thing on the connection, the ok response of type aboutme
\* whose payload is the identity made of the handshake frame; before that
\* nothing is on the connection, so every other response comes after it.
C26_AboutMeFirst ==
    /\ [](\A s \in Sessions :
            /\ pc[s] \in LoopPCs => handshakes[s] = 1
            /\ handshakes[s] = 1
                  => /\ Len(wire[s]) >= 1
                     /\ wire[s][1] = Chunk(OKResponse(aboutClient[s], AboutMeOperationType), TRUE)
                     /\ \E p \in Introductions(s) : IdentityOf(wire[s][1].body.Message, p, s)
            /\ handshakes[s] = 0
                  => \A i \in DOMAIN wire[s] : wire[s][i].body.Status # "ok")
    /\ [][\A s \in Sessions :
            handshakes'[s] > handshakes[s]
                => /\ pc[s] = "handshake"
                   /\ wire[s] = <<>>
                   /\ Len(wire'[s]) = 1]_vars

\* C26 witness: both sessions are through the handshake, the first answered with
\* the id its client gave and the second with the id the server made, and the
\* first has had another response since.
C26_Witness ==
    /\ \A s \in Sessions : handshakes[s] = 1 /\ Active(s)
    /\ wire[1][1].body.Message = [set |-> TRUE, id |-> ClientID(1), name |-> "alice"]
    /\ wire[2][1].body.Message = [set |-> TRUE, id |-> ClientUUID(2), name |-> "alice"]
    /\ Len(wire[1]) > 1
    /\ wire[1][2].body.Status = "ok"

\* the read in progress has nothing to return but its deadline
WaitingForDeadline == incoming = "read" /\ consumed = delivered /\ ~AtEnd

\* C27: in the client's receive loop a read that times out while no send on quit
\* is waiting takes the loop back to its top, from where the read is tried
\* again with a fresh deadline; with a send on quit waiting the top of the loop
\* returns instead of reading, so the loop ends when the read in progress does:
\* a read in progress has, at any moment after the send began, no more than the
\* rest of the two seconds to go, and the loop is never stuck.
C27_TimeoutPolling ==
    /\ [][(WaitingForDeadline /\ incoming' # "read")
            => /\ deadline = 0
               /\ incoming' = "select"
               /\ dispatched' = dispatched /\ consumed' = consumed]_vars
    /\ [][(incoming = "select" /\ quit # "sending" /\ incoming' # "select")
            => incoming' = "read" /\ deadline' = 2]_vars
    /\ [][(incoming = "select" /\ quit = "sending" /\ incoming' # "select")
            => incoming' = "returned" /\ quit' = "received"]_vars
    /\ [](quit = "sending"
            => /\ incoming \in {"select", "read", "exited"}
               /\ waited <= 2
               /\ incoming = "read" => waited + deadline <= 2
               /\ (incoming = "select" \/ (incoming = "read" /\ ~(WaitingForDeadline /\ deadline > 0)))
                     => ENABLED (IncomingSelect \/ readJSONFrom))
    /\ [](quit = "received" => incoming = "returned" /\ waited <= 2)

\* C27 witness: a read timed out and was tried again, later the send on quit
\* began just as a read started, and the loop returned when that read expired,
\* two seconds on.
C27_Witness ==
    /\ retried >= 1
    /\ incoming = "returned"
    /\ quit = "received"
    /\ waited = 2
    /\ dispatched # <<>>

\* C28: the client's receiver hands on the frames the server wrote, each once
\* and in order, however the transport cuts the bytes into reads: what it has
\* dispatched is the first of the payloads written, once it has read all the
\* bytes it has dispatched all the frames, and it gives up only when the stream
\* has ended with nothing left to read.
C28_ReceiverReadsFrames ==
    /\ [](dispatched = SubSeq(payloads, 1, Len(dispatched)))
    /\ []((incoming # "exited" /\ consumed = Len(written)) => dispatched = payloads)
    /\ [][(incoming # "exited" /\ incoming' = "exited") => (consumed = delivered /\ AtEnd)]_vars

\* the pushes of the message with sender name n and text t, on all connections
PushesOf(n, t) ==
    UNION {{<<s, i>> : i \in {j \in DOMAIN wire[s] :
                                /\ IsPush(wire[s][j])
                                /\ wire[s][j].body.Message.name = n
                                /\ wire[s][j].body.Message.text = t}} :
           s \in Sessions}

\* C29: a message handed to messagesChannel is taken by exactly one companion,
\* any session's; it is therefore pushed on at most one connection, once, and
\* on none when the companion that took it is not subscribed to its
\* conversation, in which case it is dropped.
C29_OneReceiver ==
    /\ [][\A s \in Sessions :
            (pc[s] = "publish" /\ pc'[s] # "publish" /\ ~crashed')
                => /\ wire' = wire
                   /\ \E d \in Sessions :
                        /\ dpc[d] = "select" /\ dpc'[d] = "check"
                        /\ message'[d] = operation[s].Message
                        /\ \A e \in Sessions \ {d} :
                              dpc'[e] = dpc[e] /\ message'[e] = message[e]]_vars
    /\ [](\A s \in Sessions : \A n \in 1..MaxMessages :
            Cardinality(PushesOf(ToString(s), Text(n))) <= 1)
    /\ [][\A d \in Sessions :
            (dpc[d] = "check" /\ dpc'[d] # "check" /\ ~crashed')
                => /\ message'[d] = NilPayload
                   /\ \A e \in Sessions \ {d} : wire'[e] = wire[e]
                   /\ message[d].conversation.id \notin conversationsToListenOn[d]
                         => wire' = wire]_vars

\* C29 witness: both sessions are subscribed to the conversation of a message
\* that was published and acknowledged; one of them was pushed it, the other
\* nothing, and no companion holds a message any more.
C29_Witness ==
    \E s, t \in Sessions :
        /\ s # t
        /\ conversationsToListenOn[s] \cap conversationsToListenOn[t] # {}
        /\ Len(Pushes(s)) = 1
        /\ Pushes(s)[1].body.Message.conversation.id
              \in conversationsToListenOn[s] \cap conversationsToListenOn[t]
        /\ Pushes(t) = <<>>
        /\ \A e \in Sessions : dpc[e] = "select" /\ pc[e] = "read"
        /\ \E e \in Sessions : \E i \in DOMAIN wire[e] : IsMessageAck(wire[e][i])

\* a step some goroutine of the server takes without a client sending anything
ServerStep ==
    \E s \in Sessions :
        \/ HandlerStep(s)
        \/ DeliverCheck(s)
        \/ SendQuit(s)
        \/ \E d \in Sessions : Publish(s, d)

\* handleConnection of s waits in a channel send: the hand-over of a message or
\* the deferred send on quit
InChannelSend(s) == pc[s] \in {"publish", "quit"}

\* C30: no handler stays blocked in a channel send.  While one waits to hand
\* over a message some companion exists to take it, while one waits to send on
\* quit its own companion exists, and the server always has a step to take; with
\* the goroutines scheduled fairly the send is completed in the end (or the
\* process has died).
C30_NoDeadlock ==
    /\ [](\A s \in Sessions :
            /\ pc[s] = "publish" => dpc[s] \in {"select", "check"}
            /\ pc[s] = "quit" => dpc[s] \in {"select", "check"}
            /\ InChannelSend(s) => ENABLED ServerStep)
    /\ \A s \in Sessions : InChannelSend(s) ~> (~InChannelSend(s) \/ crashed)

\* C30 witness: one handler waits to send on quit while its companion is busy
\* with a message, and the other handler waits to hand over its next message.
C30_Witness ==
    \E s, t \in Sessions :
        /\ s # t
        /\ pc[t] = "quit"
        /\ dpc[t] = "check"
        /\ pc[s] = "publish"

\* the statements of handleCreateConversation between its first and its last
\* write to the registry (server.go:189-191)
CreateWritePCs == {"create_load", "create_append", "create_index"}

\* the three registry structures agree
RegistryAgrees ==
    /\ Len(conversations) = Cardinality(conversationIDs)
    /\ Len(conversations) = Cardinality(DOMAIN conversationsByNickname)
    /\ \A i \in DOMAIN conversations :
          /\ conversations[i].id \in conversationIDs
          /\ conversations[i].nickname \in DOMAIN conversationsByNickname
          /\ conversationsByNickname[conversations[i].nickname] = conversations[i]

\* C31: whenever no create is between its first and its last registry write,
\* the conversation list, the id set and the nickname index have the same size,
\* every listed conversation's id is in the id set and the nickname index maps
\* each listed conversation's nickname to that conversation, also after
\* creates that ran at the same time; the step that rejects a create changes
\* none of the three.
C31_RegistryConsistent ==
    /\ []((\A s \in Sessions : pc[s] \notin CreateWritePCs) => RegistryAgrees)
    /\ [][\A s \in Sessions :
            (pc[s] = "create_lookup" /\ pc'[s] = "error_body")
                => /\ conversations' = conversations
                   /\ conversationIDs' = conversationIDs
                   /\ conversationsByNickname' = conversationsByNickname]_vars

\* C31, creates one after the other: in runs where no two creates were in
\* progress at once the three structures agree whenever no create is between
\* its writes.
C31_SequentialAgrees ==
    (~overlapped /\ \A s \in Sessions : pc[s] \notin CreateWritePCs) => RegistryAgrees

\* C31: the step that rejects a create leaves the three structures alone.
C31_RejectedCreateChangesNothing ==
    [][\A s \in Sessions :
        (pc[s] = "create_lookup" /\ pc'[s] = "error_body")
            => /\ conversations' = conversations
               /\ conversationIDs' = conversationIDs
               /\ conversationsByNickname' = conversationsByNickname]_vars

\* C32: on the byte stream of a connection every frame's payload is
\* immediately followed by its own terminator: a payload written without its
\* terminator is followed by nothing but the terminator write, which is pending
\* only while writeErrorResponse is between its two writes, and a terminator
\* written alone follows such a payload; also when the companion pushes a
\* message while an error response is written.
C32_FramesNeverInterleave ==
    \A s \in Sessions : \A i \in DOMAIN wire[s] :
        /\ (wire[s][i].hasBody /\ ~wire[s][i].term)
              => IF i = Len(wire[s]) THEN pc[s] = "error_term"
                 ELSE ~wire[s][i + 1].hasBody
        /\ ~wire[s][i].hasBody
              => i > 1 /\ wire[s][i - 1].hasBody /\ ~wire[s][i - 1].term

\* C32, the writes that carry their terminator: every ok response, of the
\* dispatch loop or pushed by the companion, is one write that ends with its
\* terminator, and only error responses are written in two.
C32_OKFramesWhole ==
    \A s \in Sessions : \A i \in DOMAIN wire[s] :
        wire[s][i].hasBody => (wire[s][i].term <=> wire[s][i].body.Status = "ok")

\* C33: no message operation the client sent references an empty or zero-id
\* conversation: every one carries a conversation with an id and a nickname,
\* also when the nickname the user typed matched nothing in the cache.
C33_NoEmptyConversationSent ==
    \A k \in DOMAIN sent :
        /\ sent[k].Message.conversation.id # 0
        /\ sent[k].Message.conversation.nickname # ""

\* C33, the lookup that finds: a message operation that carries a conversation
\* with an id carries the first cached conversation whose nickname is the one
\* the user typed, letter case apart.
C33_FoundIsCached ==
    [][(sent' # sent /\ sent'[Len(sent')].Message.conversation.id # 0)
        => \E i \in DOMAIN globalConversations : \E n \in UserNicknames :
              /\ sent'[Len(sent')].Message.conversation = globalConversations[i]
              /\ ToLower(globalConversations[i].nickname) = ToLower(n)
              /\ \A j \in 1..(i - 1) :
                    ToLower(globalConversations[j].nickname) # ToLower(n)]_vars
====
